---- MODULE Spec2Model ----
(***************************************************************************)
(* Resume parsing service: backend/app/services/resume_parser.py and the   *)
(* upload endpoint backend/app/api/v1/resume.py.                           *)
(*                                                                         *)
(* A Python str is a sequence of one-character strings; a Python Optional  *)
(* is None == <<>> or Some(x) == <<x>>.                                    *)
(***************************************************************************)
EXTENDS Integers, Sequences, FiniteSets, TLC

None == <<>>
Some(x) == <<x>>

(***************************************************************************)
(* str primitives                                                          *)
(***************************************************************************)
Digits == {"0", "1", "2", "3", "4", "5", "6", "7", "8", "9"}

UpperLetters == {"A", "B", "C", "D", "E", "F", "G", "H", "I", "J", "K", "L", "M",
                 "N", "O", "P", "Q", "R", "S", "T", "U", "V", "W", "X", "Y", "Z"}

LowerLetters == {"a", "b", "c", "d", "e", "f", "g", "h", "i", "j", "k", "l", "m",
                 "n", "o", "p", "q", "r", "s", "t", "u", "v", "w", "x", "y", "z"}

Whitespace == {" ", "\n", "\t"}

LowerChar(c) ==
    CASE c = "A" -> "a" [] c = "B" -> "b" [] c = "C" -> "c" [] c = "D" -> "d"
      [] c = "E" -> "e" [] c = "F" -> "f" [] c = "G" -> "g" [] c = "H" -> "h"
      [] c = "I" -> "i" [] c = "J" -> "j" [] c = "K" -> "k" [] c = "L" -> "l"
      [] c = "M" -> "m" [] c = "N" -> "n" [] c = "O" -> "o" [] c = "P" -> "p"
      [] c = "Q" -> "q" [] c = "R" -> "r" [] c = "S" -> "s" [] c = "T" -> "t"
      [] c = "U" -> "u" [] c = "V" -> "v" [] c = "W" -> "w" [] c = "X" -> "x"
      [] c = "Y" -> "y" [] c = "Z" -> "z" [] OTHER -> c

\* str.lower()
RECURSIVE Lower(_)
Lower(s) == IF s = <<>> THEN <<>> ELSE <<LowerChar(s[1])>> \o Lower(Tail(s))

DigitVal(c) ==
    CASE c = "0" -> 0 [] c = "1" -> 1 [] c = "2" -> 2 [] c = "3" -> 3
      [] c = "4" -> 4 [] c = "5" -> 5 [] c = "6" -> 6 [] c = "7" -> 7
      [] c = "8" -> 8 [] c = "9" -> 9

\* int(s) for a str of decimal digits
RECURSIVE ParseInt(_)
ParseInt(s) ==
    IF s = <<>> THEN 0
    ELSE 10 * ParseInt(SubSeq(s, 1, Len(s) - 1)) + DigitVal(s[Len(s)])

\* s occurs in t at 0-based offset i
OccursAt(s, t, i) ==
    /\ i >= 0
    /\ i + Len(s) <= Len(t)
    /\ \A k \in 1..Len(s) : t[i + k] = s[k]

\* t.find(s): the lowest 0-based offset of s in t, -1 when s does not occur
Find(s, t) ==
    LET hits == {i \in 0..Len(t) : OccursAt(s, t, i)}
    IN  IF hits = {} THEN -1 ELSE CHOOSE i \in hits : \A j \in hits : i <= j

\* s in t
Contains(s, t) == Find(s, t) >= 0

\* the end (exclusive, 0-based) of the maximal run of characters of cls starting at offset i
RECURSIVE RunEnd(_, _, _)
RunEnd(t, i, cls) ==
    IF i < Len(t) /\ t[i + 1] \in cls THEN RunEnd(t, i + 1, cls) ELSE i

\* concatenation of a sequence of strs
RECURSIVE Concat(_)
Concat(ss) == IF ss = <<>> THEN <<>> ELSE Head(ss) \o Concat(Tail(ss))

\* sep.join(ss)
RECURSIVE Join(_, _)
Join(sep, ss) ==
    IF ss = <<>> THEN <<>>
    ELSE IF Len(ss) = 1 THEN ss[1]
    ELSE ss[1] \o sep \o Join(sep, Tail(ss))

\* sequences over S of length at most n
SeqsUpTo(S, n) == UNION {[1..k -> S] : k \in 0..n}

Range(f) == {f[i] : i \in DOMAIN f}

Max(S) == CHOOSE x \in S : \A y \in S : y <= x
Min(S) == CHOOSE x \in S : \A y \in S : x <= y

(***************************************************************************)
(* extract_experience_years                                                *)
(***************************************************************************)
\* YEARS_EXP_RE = (\d+)\+?\s*(?:years|yrs|year) matched at 0-based offset i:
\* the digit run is greedy, then an optional "+", then greedy whitespace,
\* then one of the unit words.
YearsExpMatchAt(t, i) ==
    /\ i < Len(t)
    /\ t[i + 1] \in Digits
    /\ LET d == RunEnd(t, i, Digits)
           p == IF d < Len(t) /\ t[d + 1] = "+" THEN d + 1 ELSE d
           w == RunEnd(t, p, Whitespace)
       IN  \/ OccursAt(<<"y", "e", "a", "r", "s">>, t, w)
           \/ OccursAt(<<"y", "r", "s">>, t, w)
           \/ OccursAt(<<"y", "e", "a", "r">>, t, w)

\* YEARS_EXP_RE.search(t): group(1) of the leftmost match, or None
YearsExpSearch(t) ==
    LET hits == {i \in 0..Len(t) : YearsExpMatchAt(t, i)}
    IN  IF hits = {} THEN None
        ELSE LET i == Min(hits)
             IN  Some(SubSeq(t, i + 1, RunEnd(t, i, Digits)))

\* (20\d{2}|19\d{2}) matches at 0-based offset i
YearAt(t, i) ==
    /\ i + 4 <= Len(t)
    /\ \/ t[i + 1] = "2" /\ t[i + 2] = "0"
       \/ t[i + 1] = "1" /\ t[i + 2] = "9"
    /\ t[i + 3] \in Digits
    /\ t[i + 4] \in Digits

\* re.findall(r"(20\d{2}|19\d{2})", t) from offset i: the matches of a
\* left-to-right scan, each match consuming its four characters
RECURSIVE FindYears(_, _)
FindYears(t, i) ==
    IF i + 4 > Len(t) THEN <<>>
    ELSE IF YearAt(t, i) THEN <<SubSeq(t, i + 1, i + 4)>> \o FindYears(t, i + 4)
    ELSE FindYears(t, i + 1)

ExtractExperienceYearsSpanFirst(text) ==
    LET years == FindYears(text, 0)
        yrs == {ParseInt(years[k]) : k \in DOMAIN years}
        m == YearsExpSearch(Lower(text))
    IN  IF Cardinality(yrs) >= 2 THEN Some(Max(yrs) - Min(yrs))
        ELSE IF m # None THEN Some(ParseInt(m[1]))
        ELSE None

ExtractExperienceYears(text) ==
    LET m == YearsExpSearch(Lower(text))
        years == FindYears(text, 0)
        yrs == {ParseInt(years[k]) : k \in DOMAIN years}
    IN  IF m # None THEN Some(ParseInt(m[1]))
        ELSE IF years # <<>> /\ Cardinality(yrs) >= 2 THEN Some(Max(yrs) - Min(yrs))
        ELSE None

(***************************************************************************)
(* more str primitives                                                     *)
(***************************************************************************)
\* code-point order of the characters the model uses
CodeOrder ==
    <<"\t", "\n", " ", "#", "'", "(", ")", "+", ",", "-", ".",
      "0", "1", "2", "3", "4", "5", "6", "7", "8", "9", ":", "@",
      "A", "B", "C", "D", "E", "F", "G", "H", "I", "J", "K", "L", "M",
      "N", "O", "P", "Q", "R", "S", "T", "U", "V", "W", "X", "Y", "Z", "_",
      "a", "b", "c", "d", "e", "f", "g", "h", "i", "j", "k", "l", "m",
      "n", "o", "p", "q", "r", "s", "t", "u", "v", "w", "x", "y", "z">>

Ord(c) == CHOOSE i \in DOMAIN CodeOrder : CodeOrder[i] = c

\* a < b for strs (lexicographic by code point)
RECURSIVE StrLess(_, _)
StrLess(a, b) ==
    IF b = <<>> THEN FALSE
    ELSE IF a = <<>> THEN TRUE
    ELSE IF a[1] = b[1] THEN StrLess(Tail(a), Tail(b))
    ELSE Ord(a[1]) < Ord(b[1])

\* s.strip()
RECURSIVE LStrip(_)
LStrip(s) == IF s # <<>> /\ s[1] \in Whitespace THEN LStrip(Tail(s)) ELSE s

RECURSIVE RStrip(_)
RStrip(s) ==
    IF s # <<>> /\ s[Len(s)] \in Whitespace THEN RStrip(SubSeq(s, 1, Len(s) - 1)) ELSE s

Strip(s) == RStrip(LStrip(s))

\* s.split(): the maximal runs of non-whitespace characters
RECURSIVE SplitFrom(_, _)
SplitFrom(s, i) ==
    IF i >= Len(s) THEN <<>>
    ELSE IF s[i + 1] \in Whitespace THEN SplitFrom(s, i + 1)
    ELSE LET e == CHOOSE j \in (i + 1)..Len(s) :
                      /\ \A k \in (i + 1)..j : s[k] \notin Whitespace
                      /\ (j = Len(s) \/ s[j + 1] \in Whitespace)
         IN  <<SubSeq(s, i + 1, e)>> \o SplitFrom(s, e)

Split(s) == SplitFrom(s, 0)

\* s.splitlines() for "\n" line ends
RECURSIVE SplitLines(_)
SplitLines(s) ==
    IF s = <<>> THEN <<>>
    ELSE LET nl == Find(<<"\n">>, s)
         IN  IF nl < 0 THEN <<s>>
             ELSE <<SubSeq(s, 1, nl)>> \o SplitLines(SubSeq(s, nl + 2, Len(s)))

\* sorted(seq, key=...): a stable sort of a sequence of [key, val] records by
\* key, giving the vals
RECURSIVE InsertByKey(_, _)
InsertByKey(x, sorted) ==
    IF sorted = <<>> THEN <<x>>
    ELSE IF x.key < sorted[1].key THEN <<x>> \o sorted
    ELSE <<sorted[1]>> \o InsertByKey(x, Tail(sorted))

RECURSIVE SortKeyed(_)
SortKeyed(seq) ==
    IF seq = <<>> THEN <<>>
    ELSE InsertByKey(seq[Len(seq)], SortKeyed(SubSeq(seq, 1, Len(seq) - 1)))

SortedByKey(seq) == LET r == SortKeyed(seq) IN [i \in DOMAIN r |-> r[i].val]

\* sorted(ss) for a sequence of strs
RECURSIVE InsertStr(_, _)
InsertStr(x, sorted) ==
    IF sorted = <<>> THEN <<x>>
    ELSE IF StrLess(x, sorted[1]) THEN <<x>> \o sorted
    ELSE <<sorted[1]>> \o InsertStr(x, Tail(sorted))

RECURSIVE SortedStrs(_)
SortedStrs(ss) ==
    IF ss = <<>> THEN <<>>
    ELSE InsertStr(ss[Len(ss)], SortedStrs(SubSeq(ss, 1, Len(ss) - 1)))

\* the elements of set S in the order a process iterates them: the order of a
\* set of strs follows the process's str hash seed, given here as a sequence
\* order that lists every str once
Iterate(S, order) == SelectSeq(order, LAMBDA x : x \in S)

(***************************************************************************)
(* _load_skills_master                                                     *)
(***************************************************************************)
DefaultSkills ==
    {<<"p", "y", "t", "h", "o", "n">>,
     <<"j", "a", "v", "a">>,
     <<"c", "+", "+">>,
     <<"s", "q", "l">>,
     <<"d", "j", "a", "n", "g", "o">>,
     <<"f", "l", "a", "s", "k">>,
     <<"r", "e", "a", "c", "t">>,
     <<"n", "o", "d", "e", ".", "j", "s">>,
     <<"d", "o", "c", "k", "e", "r">>,
     <<"k", "u", "b", "e", "r", "n", "e", "t", "e", "s">>,
     <<"a", "w", "s">>,
     <<"g", "i", "t">>,
     <<"n", "l", "p">>,
     <<"t", "e", "n", "s", "o", "r", "f", "l", "o", "w">>,
     <<"p", "y", "t", "o", "r", "c", "h">>}

\* a JSON value of the skills file: a string, a number or null
JStr(s) == [t |-> "str", v |-> s]
JNum(n) == [t |-> "num", v |-> <<n>>]
JNull == [t |-> "null", v |-> <<>>]

\* Python truthiness of a JSON value
Truthy(j) ==
    CASE j.t = "str" -> j.v # <<>>
      [] j.t = "num" -> j.v # <<0>>
      [] OTHER -> FALSE

\* the skills file: absent, malformed JSON, a list of values, or a mapping
\* (keys are strs, listed in file order)
AbsentFile == [kind |-> "absent", items |-> <<>>]
MalformedFile == [kind |-> "malformed", items |-> <<>>]
ListFile(items) == [kind |-> "list", items |-> items]
DictFile(keys) == [kind |-> "dict", items |-> [i \in DOMAIN keys |-> JStr(keys[i])]]

\* s.strip().lower() for s in skills if s
NormalizeSkills(kept) == {Lower(Strip(kept[i].v)) : i \in DOMAIN kept}

\* the body of _load_skills_master when the cache is empty: the exception it
\* raises (None when it returns) and the set it assigns to _skills_master
LoadSkillsFile(file) ==
    IF file.kind = "absent" THEN [raised |-> None, value |-> Some(DefaultSkills)]
    ELSE IF file.kind = "malformed"
        THEN [raised |-> Some("JSONDecodeError"), value |-> None]
    ELSE LET skills == file.items
             kept == SelectSeq(skills, Truthy)
         IN  IF \E i \in DOMAIN kept : kept[i].t # "str"
                 THEN [raised |-> Some("AttributeError"), value |-> None]
             ELSE [raised |-> None, value |-> Some(NormalizeSkills(kept))]

(***************************************************************************)
(* extract_skills                                                          *)
(***************************************************************************)
\* [a-zA-Z#+.\-]
TokenChars == LowerLetters \cup UpperLetters \cup {"#", "+", ".", "-"}

TokenMinLen == 2
TokenMaxLen == 40
ChunkMinLen == 2
ChunkMaxLen == 50
FuzzyThreshold == 80

\* re.findall(r"[a-zA-Z#+.\-]{2,}", t) from offset i: the maximal runs of
\* token characters that are at least two characters long
RECURSIVE FindTokens(_, _)
FindTokens(t, i) ==
    IF i >= Len(t) THEN <<>>
    ELSE IF t[i + 1] \notin TokenChars THEN FindTokens(t, i + 1)
    ELSE LET e == RunEnd(t, i, TokenChars)
         IN  IF e - i >= TokenMinLen
                 THEN <<SubSeq(t, i + 1, e)>> \o FindTokens(t, e)
             ELSE FindTokens(t, e)

\* one row of the longest-common-subsequence table: row[j + 1] is the length
\* for the characters of a read so far, the last being c, and the first j of b
RECURSIVE LcsRow(_, _, _, _)
LcsRow(prev, c, b, cur) ==
    LET j == Len(cur)
    IN  IF j > Len(b) THEN cur
        ELSE IF j = 0 THEN LcsRow(prev, c, b, <<0>>)
        ELSE LcsRow(prev, c, b,
                    Append(cur, IF b[j] = c THEN prev[j] + 1
                                ELSE IF prev[j + 1] >= cur[j] THEN prev[j + 1]
                                ELSE cur[j]))

RECURSIVE LcsRows(_, _, _)
LcsRows(a, b, i) ==
    IF i = 0 THEN [j \in 1..(Len(b) + 1) |-> 0]
    ELSE LcsRow(LcsRows(a, b, i - 1), a[i], b, <<>>)

\* the length of a longest common subsequence of a and b
Lcs(a, b) == LcsRows(a, b, Len(a))[Len(b) + 1]

\* the str fuzz.token_sort_ratio compares: the whitespace-separated tokens,
\* sorted and joined by one space
SortedTokens(s) == Join(<<" ">>, SortedStrs(Split(s)))

\* fuzz.token_sort_ratio(a, b) as the fraction num/den of 100: the normalized
\* Indel similarity 2*lcs/(len + len) of the token-sorted strs (1 for two empty strs)
TokenSortRatio(a, b) ==
    LET sa == SortedTokens(a)
        sb == SortedTokens(b)
    IN  IF Len(sa) + Len(sb) = 0 THEN [num |-> 100, den |-> 1]
        ELSE [num |-> 200 * Lcs(sa, sb), den |-> Len(sa) + Len(sb)]

\* score x > score y
ScoreGreater(x, y) == x.num * y.den > y.num * x.den

\* score >= n
ScoreAtLeast(x, n) == x.num >= n * x.den

\* process.extractOne(cand, choices, scorer=token_sort_ratio): the first
\* choice of the highest score, None for no choices
ExtractOne(cand, choices) ==
    IF choices = <<>> THEN None
    ELSE LET scores == [i \in DOMAIN choices |-> TokenSortRatio(cand, choices[i])]
             best == CHOOSE i \in DOMAIN choices :
                 /\ \A j \in DOMAIN choices : ~ScoreGreater(scores[j], scores[i])
                 /\ \A j \in 1..(i - 1) : ScoreGreater(scores[i], scores[j])
         IN  Some([choice |-> choices[best], score |-> scores[best]])

\* what the NLP pipeline reports for a text: the noun chunks' texts and the
\* named entities (text and label), each in document order
EmptyDoc == [noun_chunks |-> <<>>, ents |-> <<>>]

\* the candidate phrases of extract_skills
Candidates(text_low, doc) ==
    LET chunks == {Lower(Strip(c)) : c \in Range(doc.noun_chunks)}
        tokens == FindTokens(text_low, 0)
    IN  {c \in chunks : ChunkMinLen <= Len(c) /\ Len(c) <= ChunkMaxLen}
        \cup {Lower(Strip(e.text)) : e \in Range(doc.ents)}
        \cup {tokens[i] : i \in {k \in DOMAIN tokens : Len(tokens[k]) <= TokenMaxLen}}

ExactMatchesWholeWord(skills_master, text_low) ==
    {s \in skills_master : s \in Range(Split(text_low))}

\* the quick exact matches
ExactMatches(skills_master, text_low) == {s \in skills_master : Contains(s, text_low)}

\* the skills the fuzzy pass adds
FuzzyMatches(skills_master, text_low, doc, order) ==
    LET choices == Iterate(skills_master, order)
        matches == {ExtractOne(cand, choices) : cand \in Candidates(text_low, doc)}
    IN  {m[1].choice :
            m \in {x \in matches : x # None /\ ScoreAtLeast(x[1].score, FuzzyThreshold)}}

SortByOccurrenceUnsorted(found, text_low, order) == Iterate(found, order)

\* sorted(found, key=lambda s: text_low.find(s))
SortByOccurrence(found, text_low, order) ==
    LET it == Iterate(found, order)
    IN  SortedByKey([i \in DOMAIN it |-> [key |-> Find(it[i], text_low), val |-> it[i]]])

\* extract_skills(text) given the cached vocabulary, the NLP pipeline's output
\* for text[:100000] and the process's set iteration order
ExtractSkills(text, skills_master, doc, order) ==
    LET text_low == Lower(text)
        found == ExactMatches(skills_master, text_low)
                 \cup FuzzyMatches(skills_master, text_low, doc, order)
    IN  SortByOccurrence(found, text_low, order)

\* extract_education
Degrees ==
    <<<<"b","a","c","h","e","l","o","r">>, <<"b",".","s","c">>, <<"b",".","e">>,
      <<"b",".","t","e","c","h">>, <<"m","a","s","t","e","r">>, <<"m",".","s","c">>,
      <<"m",".","t","e","c","h">>, <<"m",".","e">>, <<"m","c","a">>,
      <<"p","h","d">>, <<"p","h",".","d">>>>

ExtractEducation(text) == SelectSeq(Degrees, LAMBDA d : Contains(d, Lower(text)))

(***************************************************************************)
(* extract_contact_info, extract_name                                      *)
(***************************************************************************)
PhoneMinInner == 7
NameMaxTokens == 4

\* [\d\-\s()]
PhoneChars == Digits \cup Whitespace \cup {"-", "(", ")"}

\* PHONE_RE = (\+?\d[\d\-\s()]{7,}\d) matched at 0-based offset i: the end
\* (exclusive) of the match, or -1. The inner run is greedy and gives back
\* characters until a digit closes the match.
PhoneMatchEnd(t, i) ==
    LET d == IF i < Len(t) /\ t[i + 1] = "+" THEN i + 1 ELSE i
    IN  IF ~(d < Len(t) /\ t[d + 1] \in Digits) THEN -1
        ELSE LET e == RunEnd(t, d + 1, PhoneChars)
                 closers == {q \in (d + 1 + PhoneMinInner)..(e - 1) : t[q + 1] \in Digits}
             IN  IF closers = {} THEN -1 ELSE Max(closers) + 1

\* [a-zA-Z0-9_.+-], [a-zA-Z0-9-], [a-zA-Z0-9-.]
EmailLocalChars == LowerLetters \cup UpperLetters \cup Digits \cup {"_", ".", "+", "-"}
EmailDomainChars == LowerLetters \cup UpperLetters \cup Digits \cup {"-"}
EmailTailChars == EmailDomainChars \cup {"."}

\* EMAIL_RE matched at 0-based offset i: the end (exclusive) of the match, or -1
EmailMatchEnd(t, i) ==
    LET a == RunEnd(t, i, EmailLocalChars)
        b == RunEnd(t, a + 1, EmailDomainChars)
        c == RunEnd(t, b + 1, EmailTailChars)
    IN  IF /\ a > i
           /\ a < Len(t) /\ t[a + 1] = "@"
           /\ b > a + 1
           /\ b < Len(t) /\ t[b + 1] = "."
           /\ c > b + 1
        THEN c ELSE -1

\* extract_contact_info: the first match of each pattern, or None
ExtractContactInfo(text) ==
    LET phoneAt == {i \in 0..Len(text) : PhoneMatchEnd(text, i) >= 0}
        emailAt == {i \in 0..Len(text) : EmailMatchEnd(text, i) >= 0}
    IN  [phone |-> IF phoneAt = {} THEN None
                   ELSE Some(SubSeq(text, Min(phoneAt) + 1, PhoneMatchEnd(text, Min(phoneAt)))),
         email |-> IF emailAt = {} THEN None
                   ELSE Some(SubSeq(text, Min(emailAt) + 1, EmailMatchEnd(text, Min(emailAt))))]

\* ^[A-Za-z .'-]+$
NameChars == LowerLetters \cup UpperLetters \cup {" ", ".", "'", "-"}

\* extract_name given the pipeline's output for text[:2000]
ExtractName(text, doc) ==
    LET persons == SelectSeq(doc.ents, LAMBDA e : e.label = "PERSON")
        lines == SplitLines(text)
        stripped == [i \in DOMAIN lines |-> Strip(lines[i])]
        first_lines == SelectSeq(stripped, LAMBDA l : l # <<>>)
    IN  IF persons # <<>> THEN Some(Strip(persons[1].text))
        ELSE IF first_lines = <<>> THEN None
        ELSE LET candidate == first_lines[1]
             IN  IF /\ Len(Split(candidate)) <= NameMaxTokens
                    /\ \A k \in DOMAIN candidate : candidate[k] \in NameChars
                 THEN Some(candidate) ELSE None

(***************************************************************************)
(* extract_text                                                            *)
(***************************************************************************)
\* A file on disk as extract_text sees it: whether the path exists, its
\* suffix, whether the reader for its format opens it (pdfplumber.open,
\* docx2txt.process, Path.read_text), what the PDF reader gives page by page
\* and the text the DOCX or plain-text reader gives.
\* A page gives text, gives nothing (None or ""), or raises.
PageText(t) == [r |-> "text", v |-> t]
PageNone == [r |-> "none", v |-> <<>>]
PageRaise == [r |-> "raise", v |-> <<>>]

\* the pages read before the first page that raises
RECURSIVE PagesRead(_)
PagesRead(pages) ==
    IF pages = <<>> \/ pages[1].r = "raise" THEN <<>>
    ELSE <<pages[1]>> \o PagesRead(Tail(pages))

ExtractTextFromPdfAllOrNothing(file) ==
    IF ~file.opens \/ \E i \in DOMAIN file.pages : file.pages[i].r = "raise" THEN <<>>
    ELSE LET read == SelectSeq(file.pages, LAMBDA pg : pg.r = "text" /\ pg.v # <<>>)
         IN  Join(<<"\n">>, [i \in DOMAIN read |-> read[i].v])

\* extract_text_from_pdf
ExtractTextFromPdf(file) ==
    IF ~file.opens THEN <<>>
    ELSE LET read == SelectSeq(PagesRead(file.pages), LAMBDA pg : pg.r = "text" /\ pg.v # <<>>)
             text_chunks == [i \in DOMAIN read |-> read[i].v]
         IN  Join(<<"\n">>, text_chunks)

\* extract_text_from_docx
ExtractTextFromDocx(file) == IF ~file.opens THEN <<>> ELSE file.text

ExtractTextNoExistsCheck(file) ==
    LET suffix == Lower(file.suffix)
    IN  IF suffix = <<".", "p", "d", "f">>
            THEN [raised |-> None, value |-> ExtractTextFromPdf(file)]
        ELSE IF suffix \in {<<".", "d", "o", "c", "x">>, <<".", "d", "o", "c">>}
            THEN [raised |-> None, value |-> ExtractTextFromDocx(file)]
        ELSE IF ~file.exists THEN [raised |-> Some("FileNotFoundError"), value |-> <<>>]
        ELSE IF ~file.opens THEN [raised |-> Some("OSError"), value |-> <<>>]
        ELSE [raised |-> None, value |-> file.text]

\* extract_text: the exception raised (None when it returns) and the text
ExtractText(file) ==
    IF ~file.exists THEN [raised |-> Some("FileNotFoundError"), value |-> <<>>]
    ELSE LET suffix == Lower(file.suffix)
         IN  IF suffix = <<".", "p", "d", "f">>
                 THEN [raised |-> None, value |-> ExtractTextFromPdf(file)]
             ELSE IF suffix \in {<<".", "d", "o", "c", "x">>, <<".", "d", "o", "c">>}
                 THEN [raised |-> None, value |-> ExtractTextFromDocx(file)]
             ELSE IF ~file.opens THEN [raised |-> Some("OSError"), value |-> <<>>]
             ELSE [raised |-> None, value |-> file.text]

(***************************************************************************)
(* State                                                                   *)
(***************************************************************************)
VARIABLES
    \* the environment of a parse_resume call
    file,               \* the resume file at the path passed to parse_resume
    skillsFile,         \* the file at DATA_DIR/SKILLS_FILE
    modelInstalled,     \* spacy.load("en_core_web_sm") succeeds
    chunksNeedParser,   \* doc.noun_chunks raises on a pipeline without a parser
    nlpDoc,             \* what the installed model reports for the file's text
    hashOrder,          \* the process's iteration order of sets of strs
    \* module globals of resume_parser.py
    _nlp,               \* None or Some([model, id])
    _skills_master,     \* None or Some([skills, id])
    nlpLoads,           \* how often the body of "if _nlp is None" ran
    smLoads,            \* how often the body of "if _skills_master is None" completed
    \* parse_resume calls made so far: [raised, profile, ran]
    returns,
    \* calls of a single function: its input text and its result
    text,
    result,
    \* threads making their first access to the caches
    tpc,
    tnlp,
    tsm,
    \* upload_resume requests and the temporary directory
    tmpdir,
    req

vars == <<file, skillsFile, modelInstalled, chunksNeedParser, nlpDoc, hashOrder,
          _nlp, _skills_master, nlpLoads, smLoads, returns, text, result,
          tpc, tnlp, tsm, tmpdir, req>>

envVars == <<file, skillsFile, modelInstalled, chunksNeedParser, nlpDoc>>
cacheVars == <<_nlp, _skills_master, nlpLoads, smLoads>>
callVars == <<text, result>>
threadVars == <<tpc, tnlp, tsm>>
uploadVars == <<tmpdir, req>>

NoFile == [exists |-> FALSE, suffix |-> <<>>, opens |-> FALSE, pages |-> <<>>, text |-> <<>>]

\* the parts of the state a specification does not use
NoEnv ==
    /\ file = NoFile
    /\ skillsFile = AbsentFile
    /\ modelInstalled = TRUE
    /\ chunksNeedParser = TRUE
    /\ nlpDoc = EmptyDoc
    /\ hashOrder = <<>>

NoCaches == _nlp = None /\ _skills_master = None /\ nlpLoads = 0 /\ smLoads = 0
NoParse == returns = <<>>
NoCall == text = <<>> /\ result = None
NoThreads == tpc = <<>> /\ tnlp = <<>> /\ tsm = <<>>
NoUploads == tmpdir = <<>> /\ req = <<>>

(***************************************************************************)
(* _get_nlp, _load_skills_master, parse_resume (one caller at a time)      *)
(***************************************************************************)
\* the body of "if _nlp is None": the pipeline object assigned to _nlp
LoadNlp(installed, id) ==
    [model |-> IF installed THEN "en_core_web_sm" ELSE "blank", id |-> id]

\* nlp(text): the blank pipeline has no components and reports nothing
Analyze(nlp, doc) == IF nlp.model = "blank" THEN EmptyDoc ELSE doc

\* the state of the caches after _get_nlp()
AfterGetNlp(c) ==
    IF c.nlp = None
        THEN [c EXCEPT !.nlp = Some(LoadNlp(modelInstalled, c.nlpLoads + 1)),
                       !.nlpLoads = c.nlpLoads + 1]
    ELSE c

\* _load_skills_master(): the exception raised (None when it returns) and the
\* state of the caches afterwards
AfterLoadSkillsMaster(c) ==
    IF c.sm # None THEN [raised |-> None, caches |-> c]
    ELSE LET l == LoadSkillsFile(skillsFile)
         IN  IF l.raised # None THEN [raised |-> l.raised, caches |-> c]
             ELSE [raised |-> None,
                   caches |-> [c EXCEPT !.sm = Some([skills |-> l.value[1],
                                                      id |-> c.smLoads + 1]),
                                        !.smLoads = c.smLoads + 1]]

Raise(exc, ran, caches) ==
    [raised |-> Some(exc), profile |-> None, ran |-> ran, caches |-> caches]

\* parse_resume(path), started with the caches c0: the exception raised (None
\* when it returns), the profile returned, the functions that ran, in order,
\* and the caches afterwards
ParseResume(c0) ==
    LET t == ExtractText(file)
        raw == t.value
        c1 == AfterGetNlp(c0)
        contact == ExtractContactInfo(raw)
        ld == AfterLoadSkillsMaster(c1)
        c2 == AfterGetNlp(ld.caches)
        doc == Analyze(c2.nlp[1], nlpDoc)
        upToSkills == <<"extract_text", "extract_name", "extract_contact_info",
                        "extract_experience_years", "extract_skills">>
    IN  IF t.raised # None THEN Raise(t.raised[1], <<"extract_text">>, c0)
        ELSE IF ld.raised # None THEN Raise(ld.raised[1], upToSkills, c1)
        ELSE IF c2.nlp[1].model = "blank" /\ chunksNeedParser
            THEN Raise("ValueError", upToSkills, c2)
        ELSE [raised |-> None,
              profile |-> Some(
                  [raw_text |-> raw,
                   name |-> ExtractName(raw, Analyze(c1.nlp[1], nlpDoc)),
                   phone |-> contact.phone,
                   email |-> contact.email,
                   experience_years |-> ExtractExperienceYears(raw),
                   skills |-> ExtractSkills(raw, c2.sm[1].skills, doc, hashOrder),
                   education |-> ExtractEducation(raw)]),
              ran |-> upToSkills \o <<"extract_education">>,
              caches |-> c2]

MaxCalls == 2

Caches == [nlp |-> _nlp, sm |-> _skills_master, nlpLoads |-> nlpLoads, smLoads |-> smLoads]

\* a caller calls parse_resume on the path
CallParseResume ==
    /\ Len(returns) < MaxCalls
    /\ LET r == ParseResume(Caches)
       IN  /\ returns' = Append(returns, [raised |-> r.raised, profile |-> r.profile,
                                          ran |-> r.ran])
           /\ _nlp' = r.caches.nlp
           /\ _skills_master' = r.caches.sm
           /\ nlpLoads' = r.caches.nlpLoads
           /\ smLoads' = r.caches.smLoads
    /\ UNCHANGED <<envVars, hashOrder, callVars, threadVars, uploadVars>>

\* the permutations of a set of strs
Perms(S) == {p \in [1..Cardinality(S) -> S] : Range(p) = S}

\* the server process is restarted between two calls: the module globals are
\* empty again and the new process has a str hash seed of its own
RestartProcess ==
    /\ Len(returns) \in 1..(MaxCalls - 1)
    /\ hashOrder' \in Perms(Range(hashOrder))
    /\ _nlp' = None
    /\ _skills_master' = None
    /\ nlpLoads' = 0
    /\ smLoads' = 0
    /\ UNCHANGED <<envVars, returns, callVars, threadVars, uploadVars>>


(***************************************************************************)
(* Inputs                                                                  *)
(***************************************************************************)
RECURSIVE SortedSeqOf(_)
SortedSeqOf(S) ==
    IF S = {} THEN <<>>
    ELSE LET m == CHOOSE x \in S : \A y \in S \ {x} : StrLess(x, y)
         IN  <<m>> \o SortedSeqOf(S \ {m})

Reverse(seq) == [i \in DOMAIN seq |-> seq[Len(seq) + 1 - i]]

\* the substrings of t that start at a word's first character and end at a
\* word's last character
Spans(t) ==
    {SubSeq(t, a, b) :
        <<a, b>> \in {w \in (1..Len(t)) \X (1..Len(t)) :
            /\ w[1] <= w[2]
            /\ t[w[1]] \notin Whitespace
            /\ (w[1] = 1 \/ t[w[1] - 1] \in Whitespace)
            /\ t[w[2]] \notin Whitespace
            /\ (w[2] = Len(t) \/ t[w[2] + 1] \in Whitespace)}}

\* what the installed model may report for t: nothing or one noun chunk
ChunkOptions(t) ==
    {EmptyDoc} \cup {[noun_chunks |-> <<sp>>, ents |-> <<>>] : sp \in Spans(t)}

\* ... or one PERSON entity
DocOptions(t) ==
    ChunkOptions(t)
    \cup {[noun_chunks |-> <<>>, ents |-> <<[text |-> sp, label |-> "PERSON"]>>] :
             sp \in Spans(t)}

Suffixes == {<<".", "p", "d", "f">>, <<".", "P", "D", "F">>, <<".", "d", "o", "c", "x">>, <<".", "d", "o", "c">>, <<".", "t", "x", "t">>}

ParseTexts ==
    {<<>>,
     <<"A", "l", "\n", "3", "y", "r", "s", " ", "S", "q", "l">>}

ParseFiles ==
    {[exists |-> FALSE, suffix |-> sfx, opens |-> FALSE, pages |-> <<>>, text |-> <<>>] :
        sfx \in Suffixes}
    \cup {[exists |-> TRUE, suffix |-> sfx, opens |-> o,
           pages |-> <<PageText(t)>>, text |-> t] :
             sfx \in Suffixes, o \in BOOLEAN, t \in ParseTexts}

ParseSkillFiles ==
    {AbsentFile,
     MalformedFile,
     ListFile(<<>>),
     ListFile(<<JStr(<<" ", "S", "Q", "L", " ">>), JStr(<<"g", "i", "t">>)>>),
     ListFile(<<JStr(<<"s", "q", "l">>), JStr(<<" ">>)>>),
     ListFile(<<JStr(<<"s", "q", "l">>), JNum(5)>>),
     ListFile(<<JStr(<<>>), JNull, JNum(0), JStr(<<"G", "i", "t">>)>>),
     DictFile(<<<<"S", "q", "l">>, <<"	", "g", "i", "t">>>>)}

\* every str the vocabulary of a parse can hold
ParseUniverse ==
    DefaultSkills
    \cup UNION {NormalizeSkills(SelectSeq(f.items, LAMBDA j : j.t = "str")) :
                   f \in ParseSkillFiles}

\* two of the orders a process may iterate those strs in
ParseOrders == {SortedSeqOf(ParseUniverse), Reverse(SortedSeqOf(ParseUniverse))}

InitParse ==
    /\ file \in ParseFiles
    /\ skillsFile \in ParseSkillFiles
    /\ modelInstalled \in BOOLEAN
    /\ chunksNeedParser \in (IF modelInstalled THEN {TRUE} ELSE BOOLEAN)
    /\ nlpDoc \in (IF modelInstalled THEN DocOptions(ExtractText(file).value)
                    ELSE {EmptyDoc})
    /\ hashOrder \in ParseOrders
    /\ NoCaches /\ NoParse /\ NoCall /\ NoThreads /\ NoUploads

\* parse_resume called on one path, in one process
SpecParse == InitParse /\ [][CallParseResume]_vars

MaxWords == 2

SkillWords == {<<"S", "Q", "L">>, <<"s", "q">>, <<"g", "i">>}
SkillUniverse == {<<"s", "q", "l">>, <<"s", "q">>, <<"g", "i", "t">>}

InitSkills ==
    /\ \E words \in SeqsUpTo(SkillWords, MaxWords) :
          file = [exists |-> TRUE, suffix |-> <<".", "t", "x", "t">>, opens |-> TRUE,
                  pages |-> <<>>, text |-> Join(<<" ">>, words)]
    /\ \E V \in SUBSET SkillUniverse :
          LET names == SortedSeqOf(V)
          IN  skillsFile = ListFile([i \in DOMAIN names |-> JStr(names[i])])
    /\ modelInstalled = TRUE
    /\ chunksNeedParser = TRUE
    /\ nlpDoc \in ChunkOptions(file.text)
    /\ hashOrder \in Perms(SkillUniverse)
    /\ NoCaches /\ NoParse /\ NoCall /\ NoThreads /\ NoUploads

NextSkills == CallParseResume \/ RestartProcess

\* parse_resume called on one readable text file with a vocabulary file, the
\* server restarted between calls
SpecSkills == InitSkills /\ [][NextSkills]_vars

(***************************************************************************)
(* Properties of parse_resume                                              *)
(***************************************************************************)
Returned == {returns[k].profile[1] : k \in {i \in DOMAIN returns : returns[i].profile # None}}

\* C1: for a path that does not exist, every parse_resume call raises
\* FileNotFoundError, returns no profile, and nothing but extract_text has run:
\* no fact extractor, no skill matcher, and neither cache was touched.
MissingPathFailsBeforeExtraction ==
    ~file.exists =>
        /\ \A k \in DOMAIN returns :
              /\ returns[k].raised = Some("FileNotFoundError")
              /\ returns[k].profile = None
              /\ returns[k].ran = <<"extract_text">>
        /\ NoCaches

\* a call on a missing .pdf path has ended
MissingPathWitness ==
    /\ ~file.exists
    /\ Lower(file.suffix) = <<".", "p", "d", "f">>
    /\ returns # <<>>

\* C2: for a path that exists, every parse_resume call returns a profile and
\* raises nothing.
ExistingPathNeverRaises ==
    file.exists =>
        \A k \in DOMAIN returns : returns[k].raised = None /\ returns[k].profile # None

\* C7: a vocabulary loaded from a file holds only trimmed, lower-cased,
\* non-empty strs, and the empty str appears in no skills result.
LoadedVocabularyHasNoEmptyEntry ==
    (_skills_master # None /\ skillsFile.kind \in {"list", "dict"}) =>
        /\ \A s \in _skills_master[1].skills : s # <<>> /\ s = Lower(Strip(s))
        /\ \A pr \in Returned : <<>> \notin Range(pr.skills)

\* C4: the skills of every returned profile hold no str twice and are in the
\* order of text_low.find(skill), which is -1 for a skill that does not occur
\* in the lower-cased text (a skill only the fuzzy pass found).
SkillsOrderedByFirstOccurrence ==
    \A pr \in Returned :
        LET low == Lower(pr.raw_text)
        IN  \A i, j \in DOMAIN pr.skills :
                i < j => /\ pr.skills[i] # pr.skills[j]
                         /\ Find(pr.skills[i], low) <= Find(pr.skills[j], low)

\* a returned skills list that puts a skill only the fuzzy pass found before
\* one that occurs in the text, in a process that iterates them the other way
SkillsOrderWitness ==
    \E pr \in Returned :
        LET low == Lower(pr.raw_text)
        IN  /\ Len(pr.skills) >= 2
            /\ Find(pr.skills[1], low) = -1
            /\ Find(pr.skills[Len(pr.skills)], low) > 0
            /\ Iterate(Range(pr.skills), hashOrder) # pr.skills

\* C9: every vocabulary term that occurs in the lower-cased text is in the
\* returned skills, and every returned skill is a vocabulary term (the
\* vocabulary being the one the process has cached).
ExactTermsIncludedAndOnlyVocabulary ==
    _skills_master # None =>
        \A pr \in Returned :
            /\ \A s \in _skills_master[1].skills :
                  Contains(s, Lower(pr.raw_text)) => s \in Range(pr.skills)
            /\ Range(pr.skills) \subseteq _skills_master[1].skills

\* a returned skills list with a term that occurs only inside a word of the
\* text, and only in another case, next to a term only the fuzzy pass found
ExactTermsWitness ==
    \E pr \in Returned :
        \E s, f \in Range(pr.skills) :
            /\ Contains(s, Lower(pr.raw_text))
            /\ ~Contains(s, pr.raw_text)
            /\ s \notin Range(Split(Lower(pr.raw_text)))
            /\ ~Contains(f, Lower(pr.raw_text))

\* C5: all parse_resume calls on the same file with the same vocabulary file
\* end the same way with the same profile.
RepeatedParseIdentical ==
    \A i, j \in DOMAIN returns : returns[i] = returns[j]

(***************************************************************************)
(* extract_experience_years called on a text                               *)
(***************************************************************************)
MaxChunks == 3

ExpChunks ==
    {<<"3">>, <<"1", "2">>, <<" ">>, <<"+">>, <<"y", "r", "s">>, <<"Y", "e", "a", "r", "s">>, <<"y", "e", "a", "r">>, <<"2", "0", "1", "8">>, <<"2", "0", "2", "1">>, <<"1", "9", "9", "9">>, <<"2", "0">>, <<"1", "9">>}

\* the texts are those whose runs of digits have at most nine digits: the
\* integers they denote are integers of the model
InitExp ==
    /\ \E chunks \in SeqsUpTo(ExpChunks, MaxChunks) :
          /\ text = Concat(chunks)
          /\ \A i \in 0..Len(text) : RunEnd(text, i, Digits) - i <= 9
    /\ result = None
    /\ NoEnv /\ NoCaches /\ NoParse /\ NoThreads /\ NoUploads

CallExtractExperienceYears ==
    /\ result = None
    /\ result' = Some(ExtractExperienceYears(text))
    /\ UNCHANGED <<envVars, hashOrder, cacheVars, returns, text, threadVars, uploadVars>>

SpecExp == InitExp /\ [][CallExtractExperienceYears]_vars

\* the offsets of the lower-cased text where "<integer> years|yrs|year" starts
ExplicitYearsAt == {i \in 0..Len(text) : YearsExpMatchAt(Lower(text), i)}

\* the distinct 19xx/20xx years found in the text
YearsFound == {ParseInt(y) : y \in Range(FindYears(text, 0))}

MaxPages == 3

PageOutcomes ==
    {PageText(<<"a">>), PageText(<<"b", " ", "c">>), PageText(<<>>), PageNone, PageRaise}

InitPdf ==
    /\ \E o \in BOOLEAN, pages \in SeqsUpTo(PageOutcomes, MaxPages) :
          file = [exists |-> TRUE, suffix |-> <<".", "p", "d", "f">>, opens |-> o,
                  pages |-> IF o THEN pages ELSE <<>>, text |-> <<>>]
    /\ skillsFile = AbsentFile
    /\ modelInstalled = TRUE
    /\ chunksNeedParser = TRUE
    /\ nlpDoc = EmptyDoc
    /\ hashOrder = <<>>
    /\ NoCaches /\ NoParse /\ NoCall /\ NoThreads /\ NoUploads

CallExtractTextFromPdf ==
    /\ result = None
    /\ result' = Some(ExtractTextFromPdf(file))
    /\ UNCHANGED <<envVars, hashOrder, cacheVars, returns, text, threadVars, uploadVars>>

SpecPdf == InitPdf /\ [][CallExtractTextFromPdf]_vars

PdfFails == ~file.opens \/ \E i \in DOMAIN file.pages : file.pages[i].r = "raise"

\* C8 as stated: when opening the document or extracting any page raises,
\* extract_text_from_pdf returns "".
PdfFailureYieldsEmpty == (result # None /\ PdfFails) => result[1] = <<>>

\* C8 as amended: when opening the document raises, extract_text_from_pdf
\* returns ""; when extracting a page raises, it returns the texts of the
\* pages before that page that gave text, joined by newlines.
PdfFailureYieldsPagesReadSoFar ==
    (result # None /\ PdfFails) =>
        IF ~file.opens THEN result[1] = <<>>
        ELSE LET k == Min({i \in DOMAIN file.pages : file.pages[i].r = "raise"})
                 gave == SelectSeq(SubSeq(file.pages, 1, k - 1),
                                   LAMBDA pg : pg.r = "text" /\ pg.v # <<>>)
             IN  result[1] = Join(<<"\n">>, [i \in DOMAIN gave |-> gave[i].v])

\* two pages gave text and the third raised
PdfFailureWitness ==
    /\ result # None
    /\ file.opens
    /\ Len(file.pages) = 3
    /\ file.pages[3].r = "raise"
    /\ result[1] = <<"a", "\n", "b", " ", "c">>

(***************************************************************************)
(* _get_nlp and _load_skills_master called from several threads            *)
(***************************************************************************)
MaxThreads == 2

Threads == 1..MaxThreads

\* the cache accesses of one parse_resume call, in order: extract_name calls
\* _get_nlp, extract_skills calls _load_skills_master and then _get_nlp
CacheCalls == <<"_get_nlp", "_load_skills_master", "_get_nlp">>

CacheSkillFiles == {AbsentFile, MalformedFile, ListFile(<<JStr(<<"s", "q", "l">>)>>)}

InitCache ==
    /\ file = NoFile
    /\ skillsFile \in CacheSkillFiles
    /\ modelInstalled \in BOOLEAN
    /\ chunksNeedParser = TRUE
    /\ nlpDoc = EmptyDoc
    /\ hashOrder = <<>>
    /\ NoCaches /\ NoParse /\ NoCall /\ NoUploads
    /\ tpc = [t \in Threads |-> [call |-> 1, at |-> "check"]]
    /\ tnlp = [t \in Threads |-> None]
    /\ tsm = [t \in Threads |-> None]

Calling(t, f, at) ==
    /\ tpc[t].call \in DOMAIN CacheCalls
    /\ CacheCalls[tpc[t].call] = f
    /\ tpc[t].at = at

\* "if _nlp is None:"
GetNlpCheck(t) ==
    /\ Calling(t, "_get_nlp", "check")
    /\ tpc' = [tpc EXCEPT ![t].at = IF _nlp = None THEN "load" ELSE "return"]
    /\ UNCHANGED <<envVars, hashOrder, cacheVars, returns, callVars, tnlp, tsm, uploadVars>>

\* "_nlp = spacy.load(...)" or, when that raises, "_nlp = spacy.blank(...)"
GetNlpLoad(t) ==
    /\ Calling(t, "_get_nlp", "load")
    /\ _nlp' = Some(LoadNlp(modelInstalled, nlpLoads + 1))
    /\ nlpLoads' = nlpLoads + 1
    /\ tpc' = [tpc EXCEPT ![t].at = "return"]
    /\ UNCHANGED <<envVars, hashOrder, _skills_master, smLoads, returns, callVars,
                   tnlp, tsm, uploadVars>>

\* "return _nlp"
GetNlpReturn(t) ==
    /\ Calling(t, "_get_nlp", "return")
    /\ tnlp' = [tnlp EXCEPT ![t] = _nlp]
    /\ tpc' = [tpc EXCEPT ![t] = [call |-> @.call + 1, at |-> "check"]]
    /\ UNCHANGED <<envVars, hashOrder, cacheVars, returns, callVars, tsm, uploadVars>>

\* "if _skills_master is None:"
LoadSkillsMasterCheck(t) ==
    /\ Calling(t, "_load_skills_master", "check")
    /\ tpc' = [tpc EXCEPT ![t].at = IF _skills_master = None THEN "load" ELSE "return"]
    /\ UNCHANGED <<envVars, hashOrder, cacheVars, returns, callVars, tnlp, tsm, uploadVars>>

\* the body of the if: the file is read and the set assigned, or the read
\* raises and the exception leaves parse_resume
LoadSkillsMasterLoad(t) ==
    /\ Calling(t, "_load_skills_master", "load")
    /\ LET l == LoadSkillsFile(skillsFile)
       IN  IF l.raised # None
               THEN /\ tpc' = [tpc EXCEPT ![t] = [call |-> Len(CacheCalls) + 1,
                                                  at |-> "raised"]]
                    /\ UNCHANGED <<_skills_master, smLoads>>
           ELSE /\ _skills_master' = Some([skills |-> l.value[1], id |-> smLoads + 1])
                /\ smLoads' = smLoads + 1
                /\ tpc' = [tpc EXCEPT ![t].at = "return"]
    /\ UNCHANGED <<envVars, hashOrder, _nlp, nlpLoads, returns, callVars, tnlp, tsm,
                   uploadVars>>

\* "return _skills_master"
LoadSkillsMasterReturn(t) ==
    /\ Calling(t, "_load_skills_master", "return")
    /\ tsm' = [tsm EXCEPT ![t] = _skills_master]
    /\ tpc' = [tpc EXCEPT ![t] = [call |-> @.call + 1, at |-> "check"]]
    /\ UNCHANGED <<envVars, hashOrder, cacheVars, returns, callVars, tnlp, uploadVars>>

NextCache ==
    \E t \in Threads :
        \/ GetNlpCheck(t)
        \/ GetNlpLoad(t)
        \/ GetNlpReturn(t)
        \/ LoadSkillsMasterCheck(t)
        \/ LoadSkillsMasterLoad(t)
        \/ LoadSkillsMasterReturn(t)

SpecCache == InitCache /\ [][NextCache]_vars

\* C3: when several threads make their first access to a cache at the same
\* time, the body of the lazy initialisation runs at most once per cache and
\* all threads are handed the same instance.
CachesInitialisedOnce ==
    /\ nlpLoads <= 1
    /\ smLoads <= 1
    /\ \A t, u \in Threads :
          /\ (tnlp[t] # None /\ tnlp[u] # None) => tnlp[t] = tnlp[u]
          /\ (tsm[t] # None /\ tsm[u] # None) => tsm[t] = tsm[u]

(***************************************************************************)
(* upload_resume requests sharing the temporary directory                  *)
(***************************************************************************)
MaxRequests == 2

Requests == 1..MaxRequests

\* Path(s).name, for an s that does not end in "/" and is not ".": what
\* follows the last "/"
RECURSIVE PathName(_)
PathName(s) ==
    IF s = <<>> THEN <<>>
    ELSE IF s[Len(s)] = "/" THEN <<>>
    ELSE Append(PathName(SubSeq(s, 1, Len(s) - 1)), s[Len(s)])

\* Path(name).suffix: from the last "." on, unless that is the first or the
\* last character of the name
PathSuffix(name) ==
    LET dots == {i \in DOMAIN name : name[i] = "."}
    IN  IF dots = {} THEN <<>>
        ELSE LET i == Max(dots)
             IN  IF 1 < i /\ i < Len(name) THEN SubSeq(name, i, Len(name)) ELSE <<>>

AllowedExts == {<<".", "p", "d", "f">>, <<".", "d", "o", "c", "x">>, <<".", "d", "o", "c">>, <<".", "t", "x", "t">>}

\* the file names and the contents that clients upload
UploadNames == {<<"c", "v", ".", "t", "x", "t">>, <<"x", "/", "c", "v", ".", "T", "X", "T">>, <<"m", "e", ".", "t", "x", "t">>, <<"c", "v", ".", "e", "x", "e">>, <<>>}
UploadContents == {<<"A", "l">>, <<"B", "o", " ", "3", "y", "r", "s">>}

SaveNames == {PathName(n) : n \in UploadNames}

\* the temporary directory: dir maps a file name to its inode (0 when there
\* is no such file), data maps an inode to the file's content
EmptyTmpdir == [dir |-> [n \in SaveNames |-> 0], data |-> <<>>]

InitUpload ==
    /\ NoEnv /\ NoCaches /\ NoParse /\ NoCall /\ NoThreads
    /\ tmpdir = EmptyTmpdir
    /\ req \in [Requests -> {[filename |-> n, content |-> c, pc |-> "validate", fd |-> 0,
                              read |-> None, status |-> 0] :
                                 n \in UploadNames, c \in UploadContents}]

SavePath(r) == PathName(req[r].filename)

\* lines 21-27: the request is refused with 400 before anything is written
Validate(r) ==
    /\ req[r].pc = "validate"
    /\ LET filename == SavePath(r)
           ext == Lower(PathSuffix(filename))
       IN  IF filename = <<>> \/ ext \notin AllowedExts
               THEN req' = [req EXCEPT ![r].pc = "done", ![r].status = 400]
           ELSE req' = [req EXCEPT ![r].pc = "open"]
    /\ UNCHANGED <<envVars, hashOrder, cacheVars, returns, callVars, threadVars, tmpdir>>

\* save_path.open("wb"): the file is created, or truncated when it is there
Open(r) ==
    /\ req[r].pc = "open"
    /\ LET ino == tmpdir.dir[SavePath(r)]
           new == Len(tmpdir.data) + 1
       IN  IF ino = 0
               THEN /\ tmpdir' = [dir |-> [tmpdir.dir EXCEPT ![SavePath(r)] = new],
                                  data |-> Append(tmpdir.data, <<>>)]
                    /\ req' = [req EXCEPT ![r].pc = "copy", ![r].fd = new]
           ELSE /\ tmpdir' = [tmpdir EXCEPT !.data[ino] = <<>>]
                /\ req' = [req EXCEPT ![r].pc = "copy", ![r].fd = ino]
    /\ UNCHANGED <<envVars, hashOrder, cacheVars, returns, callVars, threadVars>>

\* shutil.copyfileobj(file.file, buffer) and the end of the with block: the
\* content is written from offset 0 of the open file, which is then closed
CopyFileObj(r) ==
    /\ req[r].pc = "copy"
    /\ LET old == tmpdir.data[req[r].fd]
           c == req[r].content
       IN  tmpdir' = [tmpdir EXCEPT !.data[req[r].fd] =
                          c \o SubSeq(old, Len(c) + 1, Len(old))]
    /\ req' = [req EXCEPT ![r].pc = "exists", ![r].fd = 0]
    /\ UNCHANGED <<envVars, hashOrder, cacheVars, returns, callVars, threadVars>>

\* parse_resume, extract_text: "if not p.exists(): raise FileNotFoundError",
\* which upload_resume turns into a 500
ParseExists(r) ==
    /\ req[r].pc = "exists"
    /\ IF tmpdir.dir[SavePath(r)] = 0
           THEN req' = [req EXCEPT ![r].pc = "finally", ![r].status = 500]
       ELSE req' = [req EXCEPT ![r].pc = "read"]
    /\ UNCHANGED <<envVars, hashOrder, cacheVars, returns, callVars, threadVars, tmpdir>>

\* parse_resume, extract_text: p.read_text(...) raises when the file is gone
\* by now, which upload_resume turns into a 500; otherwise the profile is
\* built from the text read and returned
ParseRead(r) ==
    /\ req[r].pc = "read"
    /\ LET ino == tmpdir.dir[SavePath(r)]
       IN  IF ino = 0
               THEN req' = [req EXCEPT ![r].pc = "finally", ![r].status = 500]
           ELSE req' = [req EXCEPT ![r].pc = "finally",
                                   ![r].read = Some(tmpdir.data[ino]),
                                   ![r].status = 200]
    /\ UNCHANGED <<envVars, hashOrder, cacheVars, returns, callVars, threadVars, tmpdir>>

\* finally: "if save_path.exists():"
FinallyExists(r) ==
    /\ req[r].pc = "finally"
    /\ req' = [req EXCEPT ![r].pc = IF tmpdir.dir[SavePath(r)] = 0 THEN "done"
                                    ELSE "remove"]
    /\ UNCHANGED <<envVars, hashOrder, cacheVars, returns, callVars, threadVars, tmpdir>>

\* finally: "os.remove(save_path)", whose error is ignored
Remove(r) ==
    /\ req[r].pc = "remove"
    /\ tmpdir' = [tmpdir EXCEPT !.dir[SavePath(r)] = 0]
    /\ req' = [req EXCEPT ![r].pc = "done"]
    /\ UNCHANGED <<envVars, hashOrder, cacheVars, returns, callVars, threadVars>>

NextUpload ==
    \E r \in Requests :
        \/ Validate(r)
        \/ Open(r)
        \/ CopyFileObj(r)
        \/ ParseExists(r)
        \/ ParseRead(r)
        \/ FinallyExists(r)
        \/ Remove(r)

SpecUpload == InitUpload /\ [][NextUpload]_vars

\* C10: concurrent upload_resume requests do not interfere through the
\* temporary directory: while a request parses, the file at its path is there
\* and holds the content the request uploaded; the text a request parsed is
\* the content it uploaded; no request that wrote its file ends in an error;
\* and when every request is done no file is left.
UploadsDoNotInterfere ==
    /\ \A r \in Requests :
          /\ req[r].pc \in {"exists", "read"} =>
                /\ tmpdir.dir[SavePath(r)] # 0
                /\ tmpdir.data[tmpdir.dir[SavePath(r)]] = req[r].content
          /\ req[r].read # None => req[r].read = Some(req[r].content)
          /\ req[r].status # 500
    /\ (\A r \in Requests : req[r].pc = "done") =>
          \A n \in SaveNames : tmpdir.dir[n] = 0

====
